---- MODULE Spec2Model ----
(***************************************************************************)
(* Sigmoid explorer: the Axis Stabilizer of GeneralSigmoidChart, the       *)
(* stateless X- and Y-bounds and 1-2-5 helpers of SigmoidDataService, and  *)
(* the two-point fit and parameter validation of SigmoidMathService.       *)
(*                                                                         *)
(* Numbers.  Axis values are fixed-point integers counted in ticks of      *)
(* 10^-Prec of a data unit, so that the 1-2-5 sequence can be followed     *)
(* Prec decades below 1.  A returned range carries the 10% buffer and is   *)
(* therefore counted in tenths of a tick (BufferDiv).  Timestamps are      *)
(* milliseconds.  Arithmetic on the grid is exact.  An argument that is    *)
(* not on the grid is a grid value a together with an offset d in          *)
(* {-1, 0, 1}: the number a + d * delta, where delta > 0 is smaller than   *)
(* the 1e-12 relative tolerance of almostEqual (and far smaller than a     *)
(* tick).                                                                  *)
(*                                                                         *)
(* The 1-2-5 helpers (almostEqual .. stepDown) exist twice in the source,  *)
(* word for word: in SigmoidDataService and in GeneralSigmoidChart.  One   *)
(* set of operators models both copies.                                    *)
(***************************************************************************)
EXTENDS Integers, Sequences, FiniteSets, TLC

\* ---------------------------------------------------------------- bounds
Prec == 2
MaxNow == 400
ClockStep == 100
RunCap == 3
MaxNice == 120

\* ------------------------------------------------------- program constants
SHRINK_GRACE_MS == 200
SHRINK_STABLE_THRESHOLD_Two == 3 - 1
SHRINK_STABLE_THRESHOLD == 3
BufferDiv == 10

\* ------------------------------------------------------------ arithmetic
RECURSIVE Pow10(_)
Pow10(n) == IF n <= 0 THEN 1 ELSE 10 * Pow10(n - 1)

Scale == Pow10(Prec)

Abs(x) == IF x < 0 THEN 0 - x ELSE x
MathSign(x) == IF x > 0 THEN 1 ELSE IF x < 0 THEN 0 - 1 ELSE 0
MathMin(a, b) == IF a <= b THEN a ELSE b
MathMax(a, b) == IF a >= b THEN a ELSE b

\* Largest power of ten that is <= a, for a >= 1 (10^floor(log10 a)).
RECURSIVE Decade(_)
Decade(a) == IF a < 10 THEN 1 ELSE 10 * Decade(a \div 10)

\* m = a / k is kept as the exact fraction <<a, k>>; e is not needed beyond k.
splitToMantissaDecade(a) == [m |-> <<a, Decade(a)>>, k |-> Decade(a)]

\* m <= c and m >= c for the mantissa fraction m and an integer c.
MantLeq(m, c) == m[1] <= c * m[2]
MantGeq(m, c) == m[1] >= c * m[2]
\* almostEqual(m, c): the 1e-12 tolerance is below a tick and above delta,
\* so m is almost c exactly when the grid part of m is c.
almostEqual(m, c) == m[1] = c * m[2]

niceCeil(x) ==
  IF x <= 0 THEN 0
  ELSE LET sd == splitToMantissaDecade(x) IN
       IF MantLeq(sd.m, 1) \/ almostEqual(sd.m, 1) THEN 1 * sd.k
       ELSE IF MantLeq(sd.m, 2) \/ almostEqual(sd.m, 2) THEN 2 * sd.k
       ELSE IF MantLeq(sd.m, 5) \/ almostEqual(sd.m, 5) THEN 5 * sd.k
       ELSE 10 * sd.k

niceFloor(x) ==
  IF x <= 0 THEN 0
  ELSE LET sd == splitToMantissaDecade(x) IN
       IF MantGeq(sd.m, 5) \/ almostEqual(sd.m, 5) THEN 5 * sd.k
       ELSE IF MantGeq(sd.m, 2) \/ almostEqual(sd.m, 2) THEN 2 * sd.k
       ELSE 1 * sd.k

upperBound(value) ==
  IF value > 0 THEN niceCeil(value)
  ELSE IF value < 0 THEN 0 - niceFloor(0 - value)
  ELSE 0

lowerBound(value) ==
  IF value < 0 THEN 0 - niceCeil(0 - value)
  ELSE IF value > 0 THEN niceFloor(value)
  ELSE 0

stepUpMagnitude(value) ==
  IF value = 0 THEN Scale
  ELSE LET a == Abs(value)
           sd == splitToMantissaDecade(a) IN
       IF ~(almostEqual(sd.m, 1) \/ almostEqual(sd.m, 2) \/ almostEqual(sd.m, 5))
       THEN niceCeil(a)
       ELSE IF almostEqual(sd.m, 1) THEN 2 * sd.k
       ELSE IF almostEqual(sd.m, 2) THEN 5 * sd.k
       ELSE 10 * sd.k

\* stepUp(0) is the number 1, i.e. Scale ticks.
stepUp(value) ==
  IF value = 0 THEN Scale
  ELSE LET s == MathSign(value)
           a == Abs(value)
           sd == splitToMantissaDecade(a) IN
       IF ~(almostEqual(sd.m, 1) \/ almostEqual(sd.m, 2) \/ almostEqual(sd.m, 5))
       THEN s * niceCeil(a)
       ELSE IF almostEqual(sd.m, 1) THEN s * (2 * sd.k)
       ELSE IF almostEqual(sd.m, 2) THEN s * (5 * sd.k)
       ELSE s * (10 * sd.k)

\* stepDown of +-1 tick would be half a tick: the grid ends there (InGrid).
stepDown(value) ==
  IF value = 0 THEN 0
  ELSE LET s == MathSign(value)
           a == Abs(value)
           sd == splitToMantissaDecade(a) IN
       IF ~(almostEqual(sd.m, 1) \/ almostEqual(sd.m, 2) \/ almostEqual(sd.m, 5))
       THEN s * niceFloor(a)
       ELSE IF almostEqual(sd.m, 5) THEN s * (2 * sd.k)
       ELSE IF almostEqual(sd.m, 2) THEN s * (1 * sd.k)
       ELSE s * (5 * (sd.k \div 10))

InGrid(value) == Abs(value) # 1

\* ------------------------------------------- arguments a + d * delta
Offsets == {0 - 1, 0, 1}

\* floor(log10(a + d * delta)): just below a power of ten the decade is the
\* one before.
DecadeOff(a, d) ==
  IF d < 0 /\ a = Decade(a) THEN Decade(a) \div 10 ELSE Decade(a)

splitToMantissaDecadeOff(a, d) ==
  [m |-> <<a, DecadeOff(a, d)>>, d |-> d, k |-> DecadeOff(a, d)]

\* m <= c and m >= c for m = (a + d * delta) / k.
MantLeqOff(sd, c) ==
  sd.m[1] < c * sd.m[2] \/ (sd.m[1] = c * sd.m[2] /\ sd.d <= 0)
MantGeqOff(sd, c) ==
  sd.m[1] > c * sd.m[2] \/ (sd.m[1] = c * sd.m[2] /\ sd.d >= 0)

\* x <= 0 for x = a + d * delta.
LeqZeroOff(a, d) == a < 0 \/ (a = 0 /\ d <= 0)

niceCeilOff(x, d) ==
  IF LeqZeroOff(x, d) THEN 0
  ELSE LET sd == splitToMantissaDecadeOff(x, d) IN
       IF MantLeqOff(sd, 1) \/ almostEqual(sd.m, 1) THEN 1 * sd.k
       ELSE IF MantLeqOff(sd, 2) \/ almostEqual(sd.m, 2) THEN 2 * sd.k
       ELSE IF MantLeqOff(sd, 5) \/ almostEqual(sd.m, 5) THEN 5 * sd.k
       ELSE 10 * sd.k

niceFloorOffExact(x, d) ==
  IF LeqZeroOff(x, d) THEN 0
  ELSE LET sd == splitToMantissaDecadeOff(x, d) IN
       IF MantGeqOff(sd, 5) THEN 5 * sd.k
       ELSE IF MantGeqOff(sd, 2) THEN 2 * sd.k
       ELSE 1 * sd.k

niceFloorOff(x, d) ==
  IF LeqZeroOff(x, d) THEN 0
  ELSE LET sd == splitToMantissaDecadeOff(x, d) IN
       IF MantGeqOff(sd, 5) \/ almostEqual(sd.m, 5) THEN 5 * sd.k
       ELSE IF MantGeqOff(sd, 2) \/ almostEqual(sd.m, 2) THEN 2 * sd.k
       ELSE 1 * sd.k

upperBoundOffInward(value, d) ==
  IF ~LeqZeroOff(value, d) THEN niceCeilOff(value, d)
  ELSE IF ~LeqZeroOff(0 - value, 0 - d) THEN 0 - niceCeilOff(0 - value, 0 - d)
  ELSE 0

\* value > 0 is ~LeqZeroOff(value, d); value < 0 is ~LeqZeroOff(-value, -d).
upperBoundOff(value, d) ==
  IF ~LeqZeroOff(value, d) THEN niceCeilOff(value, d)
  ELSE IF ~LeqZeroOff(0 - value, 0 - d) THEN 0 - niceFloorOff(0 - value, 0 - d)
  ELSE 0

lowerBoundOff(value, d) ==
  IF ~LeqZeroOff(0 - value, 0 - d) THEN 0 - niceCeilOff(0 - value, 0 - d)
  ELSE IF ~LeqZeroOff(value, d) THEN niceFloorOff(value, d)
  ELSE 0

\* The desired bounds of one call: nice bounds with the flat-input fallback.
DesiredBoundsNoFlat(dataMin, dataMax) ==
  [min |-> lowerBound(dataMin), max |-> upperBound(dataMax)]

DesiredBounds(dataMin, dataMax) ==
  LET desiredMax == upperBound(dataMax)
      desiredMin == lowerBound(dataMin) IN
  IF desiredMax = desiredMin
  THEN IF desiredMax = 0
       THEN [min |-> 0 - Scale, max |-> Scale]
       ELSE [min |-> desiredMin, max |-> stepUp(desiredMax)]
  ELSE [min |-> desiredMin, max |-> desiredMax]

\* ------------------------------------------------- Axis Stabilizer state
VARIABLES
  currentYMin,            \* <<>> while undefined, <<v>> once set
  currentYMax,
  lastScaleChange,
  shrinkStableCountMin,
  shrinkStableCountMax,
  now,                    \* the latest Date.now() reading
  call,                   \* locals of the latest calculateYAxisRange call
  ret,                    \* its return value, in tenths of a tick
  qualRunMax,             \* observers: length of the current run of calls that
  qualRunMin,             \* qualify for a shrink of that end (capped)
  yb,                     \* calculateYAxisBounds: input and result
  fit,                    \* calculateBandT: input and result
  xb,                     \* calculateXAxisBounds: input, locals and result
  vp,                     \* validateParameters: input and result
  nice,                   \* niceCeil .. stepDown: input and results
  rt,                     \* evaluateSigmoid then calculateBandT: input and result
  form,                   \* GuestimateForm and SigmoidParametersService
  legacy                  \* the stabilizer of the earlier SigmoidChart

vars == <<currentYMin, currentYMax, lastScaleChange, shrinkStableCountMin,
          shrinkStableCountMax, now, call, ret, qualRunMax, qualRunMin, yb, fit,
          xb, vp, nice, rt, form, legacy>>

moreVars == <<rt, form, legacy>>

stabVars == <<currentYMin, currentYMax, lastScaleChange, shrinkStableCountMin,
              shrinkStableCountMax, now, call, ret, qualRunMax, qualRunMin>>

undefined == <<>>

\* Values the A and K fields take, in data units.
ParamValues == {0 - 3, 0 - 2, 0, 1, 5}

NoCall == [made |-> FALSE, first |-> FALSE, dataMin |-> 0, dataMax |-> 0,
           expanded |-> FALSE, graceOk |-> FALSE,
           shrunkMax |-> FALSE, shrunkMin |-> FALSE]

StabInit ==
  /\ currentYMin = undefined
  /\ currentYMax = undefined
  /\ lastScaleChange = 0
  /\ shrinkStableCountMin = 0
  /\ shrinkStableCountMax = 0
  /\ now = 0
  /\ call = NoCall
  /\ ret = [min |-> 0, max |-> 0]
  /\ qualRunMax = 0
  /\ qualRunMin = 0

\* "Check for expansion (immediate)": the bounds after the two tests.
ExpandMaxOnly(curMin, curMax, desired, dataMin, dataMax) ==
  [max |-> IF dataMax > curMax THEN desired.max ELSE curMax,
   min |-> curMin,
   expanded |-> (dataMax > curMax) \/ (dataMin < curMin)]

ExpandBoth(curMin, curMax, desired, dataMin, dataMax) ==
  [max |-> IF dataMax > curMax \/ dataMin < curMin THEN desired.max ELSE curMax,
   min |-> IF dataMax > curMax \/ dataMin < curMin THEN desired.min ELSE curMin,
   expanded |-> (dataMax > curMax) \/ (dataMin < curMin)]

Expand(curMin, curMax, desired, dataMin, dataMax) ==
  [max |-> IF dataMax > curMax THEN desired.max ELSE curMax,
   min |-> IF dataMin < curMin THEN desired.min ELSE curMin,
   expanded |-> (dataMax > curMax) \/ (dataMin < curMin)]

\* "Try to shrink max independently".
ShrinkMaxNoReset(curMax, count, dataMax) ==
  LET candidateMax == stepDown(curMax) IN
  IF dataMax <= candidateMax
  THEN IF count + 1 >= SHRINK_STABLE_THRESHOLD
       THEN [bound |-> candidateMax, count |-> count + 1, shrunk |-> TRUE]
       ELSE [bound |-> curMax, count |-> count + 1, shrunk |-> FALSE]
  ELSE [bound |-> curMax, count |-> 0, shrunk |-> FALSE]

ShrinkMaxAlways(curMax, count, dataMax) ==
  LET candidateMax == stepDown(curMax) IN
  IF count + 1 >= SHRINK_STABLE_THRESHOLD
  THEN [bound |-> candidateMax, count |-> 0, shrunk |-> TRUE]
  ELSE [bound |-> curMax, count |-> count + 1, shrunk |-> FALSE]

ShrinkMax(curMax, count, dataMax) ==
  LET candidateMax == stepDown(curMax) IN
  IF dataMax <= candidateMax
  THEN IF count + 1 >= SHRINK_STABLE_THRESHOLD
       THEN [bound |-> candidateMax, count |-> 0, shrunk |-> TRUE]
       ELSE [bound |-> curMax, count |-> count + 1, shrunk |-> FALSE]
  ELSE [bound |-> curMax, count |-> 0, shrunk |-> FALSE]

\* "Try to shrink min independently".
ShrinkMinKeepsCount(curMin, count, dataMin) ==
  LET candidateMin == stepDown(curMin) IN
  IF dataMin >= candidateMin
  THEN IF count + 1 >= SHRINK_STABLE_THRESHOLD
       THEN [bound |-> candidateMin, count |-> 0, shrunk |-> TRUE]
       ELSE [bound |-> curMin, count |-> count + 1, shrunk |-> FALSE]
  ELSE [bound |-> curMin, count |-> count, shrunk |-> FALSE]

ShrinkMin(curMin, count, dataMin) ==
  LET candidateMin == stepDown(curMin) IN
  IF dataMin >= candidateMin
  THEN IF count + 1 >= SHRINK_STABLE_THRESHOLD
       THEN [bound |-> candidateMin, count |-> 0, shrunk |-> TRUE]
       ELSE [bound |-> curMin, count |-> count + 1, shrunk |-> FALSE]
  ELSE [bound |-> curMin, count |-> 0, shrunk |-> FALSE]

\* "now - this.lastScaleChange >= this.SHRINK_GRACE_MS".
GraceElapsedAlways(t, last) == t - last >= 0

GraceElapsed(t, last) == t - last >= SHRINK_GRACE_MS

\* The claim-side notion of a call that qualifies for a shrink of one end:
\* initialized, no expansion, grace period over, data within stepDown.
QualifiesMax(dataMin, dataMax, t) ==
  /\ currentYMin # undefined /\ currentYMax # undefined
  /\ ~(dataMax > currentYMax[1]) /\ ~(dataMin < currentYMin[1])
  /\ t - lastScaleChange >= SHRINK_GRACE_MS
  /\ dataMax <= stepDown(currentYMax[1])

QualifiesMin(dataMin, dataMax, t) ==
  /\ currentYMin # undefined /\ currentYMax # undefined
  /\ ~(dataMax > currentYMax[1]) /\ ~(dataMin < currentYMin[1])
  /\ t - lastScaleChange >= SHRINK_GRACE_MS
  /\ dataMin >= stepDown(currentYMin[1])


\* The bounds a call with A, K starts from are above the lowest tick.
CallInGrid(A, K) ==
  LET desired == DesiredBounds(MathMin(A, K), MathMax(A, K))
      first == currentYMin = undefined \/ currentYMax = undefined IN
  /\ InGrid(IF first THEN desired.max ELSE currentYMax[1])
  /\ InGrid(IF first THEN desired.min ELSE currentYMin[1])

\* GeneralSigmoidChart.calculateYAxisRange with A, K the chart's parameters
\* and t the value Date.now() returns.
calculateYAxisRange(A, K, t) ==
  LET dataMin == MathMin(A, K)
      dataMax == MathMax(A, K)
      desired == DesiredBounds(dataMin, dataMax)
      first == currentYMin = undefined \/ currentYMax = undefined
      min1 == IF first THEN desired.min ELSE currentYMin[1]
      max1 == IF first THEN desired.max ELSE currentYMax[1]
      last1 == IF first THEN t ELSE lastScaleChange
      cntMin1 == IF first THEN 0 ELSE shrinkStableCountMin
      cntMax1 == IF first THEN 0 ELSE shrinkStableCountMax
      ex == Expand(min1, max1, desired, dataMin, dataMax)
      graceOk == GraceElapsed(t, last1)
      sMax == ShrinkMax(ex.max, cntMax1, dataMax)
      sMin == ShrinkMin(ex.min, cntMin1, dataMin)
      dataRange == Abs(dataMax - dataMin)
  IN
  /\ now' = t
  /\ qualRunMax' = IF QualifiesMax(dataMin, dataMax, t)
                   THEN MathMin(qualRunMax + 1, RunCap) ELSE 0
  /\ qualRunMin' = IF QualifiesMin(dataMin, dataMax, t)
                   THEN MathMin(qualRunMin + 1, RunCap) ELSE 0
  /\ IF ex.expanded
     THEN /\ currentYMin' = <<ex.min>>
          /\ currentYMax' = <<ex.max>>
          /\ lastScaleChange' = t
          /\ shrinkStableCountMin' = 0
          /\ shrinkStableCountMax' = 0
          /\ ret' = [min |-> BufferDiv * ex.min, max |-> BufferDiv * ex.max]
          /\ call' = [made |-> TRUE, first |-> first, dataMin |-> dataMin,
                      dataMax |-> dataMax, expanded |-> TRUE, graceOk |-> FALSE,
                      shrunkMax |-> FALSE, shrunkMin |-> FALSE]
     ELSE IF graceOk
     THEN /\ currentYMax' = <<sMax.bound>>
          /\ shrinkStableCountMax' = sMax.count
          /\ currentYMin' = <<sMin.bound>>
          /\ shrinkStableCountMin' = sMin.count
          /\ lastScaleChange' = IF sMax.shrunk \/ sMin.shrunk THEN t ELSE last1
          /\ ret' = [min |-> BufferDiv * sMin.bound - dataRange,
                     max |-> BufferDiv * sMax.bound + dataRange]
          /\ call' = [made |-> TRUE, first |-> first, dataMin |-> dataMin,
                      dataMax |-> dataMax, expanded |-> FALSE, graceOk |-> TRUE,
                      shrunkMax |-> sMax.shrunk, shrunkMin |-> sMin.shrunk]
     ELSE /\ currentYMin' = <<ex.min>>
          /\ currentYMax' = <<ex.max>>
          /\ lastScaleChange' = last1
          /\ shrinkStableCountMin' = 0
          /\ shrinkStableCountMax' = 0
          /\ ret' = [min |-> BufferDiv * ex.min - dataRange,
                     max |-> BufferDiv * ex.max + dataRange]
          /\ call' = [made |-> TRUE, first |-> first, dataMin |-> dataMin,
                      dataMax |-> dataMax, expanded |-> FALSE, graceOk |-> FALSE,
                      shrunkMax |-> FALSE, shrunkMin |-> FALSE]

\* updateChart / createChart: one redraw with the current A, K and clock.
ClockSteps == {0, ClockStep, 2 * ClockStep}

updateChart ==
  /\ \E A \in ParamValues, K \in ParamValues, dt \in ClockSteps :
        /\ now + dt <= MaxNow
        /\ CallInGrid(A * Scale, K * Scale)
        /\ calculateYAxisRange(A * Scale, K * Scale, now + dt)
  /\ UNCHANGED <<yb, fit, xb, vp, nice, moreVars>>

\* Redraws with unchanging A and K.  The code reads the clock only in the
\* difference now - lastScaleChange, so the clock is kept relative to the
\* last change (the origin of time is moved there at every tick) and is not
\* advanced past the end of the grace period.  Here the lowest tick stands
\* for the smallest power of ten of the number format, below which
\* 5 * Math.pow(10, e - 1) is 0.
clockTick ==
  /\ call.made
  /\ now - lastScaleChange < SHRINK_GRACE_MS
  /\ now' = (now - lastScaleChange) + ClockStep
  /\ lastScaleChange' = 0
  /\ UNCHANGED <<currentYMin, currentYMax,
                 shrinkStableCountMin, shrinkStableCountMax, call, ret,
                 qualRunMax, qualRunMin, yb, fit, xb, vp, nice, moreVars>>

redrawSame ==
  /\ \E A \in ParamValues, K \in ParamValues :
        /\ call.made => (/\ MathMin(A, K) * Scale = call.dataMin
                         /\ MathMax(A, K) * Scale = call.dataMax)
        /\ calculateYAxisRange(A * Scale, K * Scale, now)
  /\ UNCHANGED <<yb, fit, xb, vp, nice, moreVars>>

\* ------------------------------ SigmoidDataService.calculateYAxisBounds
DesiredBoundsOffNoZeroCase(dataMin, dMin, dataMax, dMax) ==
  LET desiredMax == upperBoundOff(dataMax, dMax)
      desiredMin == lowerBoundOff(dataMin, dMin) IN
  IF desiredMax = desiredMin
  THEN [min |-> desiredMin, max |-> stepUp(desiredMax)]
  ELSE [min |-> desiredMin, max |-> desiredMax]

\* The nice bounds of off-grid data, with the flat-input fallback.
DesiredBoundsOff(dataMin, dMin, dataMax, dMax) ==
  LET desiredMax == upperBoundOff(dataMax, dMax)
      desiredMin == lowerBoundOff(dataMin, dMin) IN
  IF desiredMax = desiredMin
  THEN IF desiredMax = 0
       THEN [min |-> 0 - Scale, max |-> Scale]
       ELSE [min |-> desiredMin, max |-> stepUp(desiredMax)]
  ELSE [min |-> desiredMin, max |-> desiredMax]

\* Math.abs(dataMax - dataMin), grid part and delta part.
DataRange(dataMin, dataMax) == Abs(dataMax - dataMin)
DataRangeOff(dataMin, dMin, dataMax, dMax) ==
  IF dataMax > dataMin THEN dMax - dMin
  ELSE IF dataMax < dataMin THEN dMin - dMax
  ELSE Abs(dMax - dMin)

calculateYAxisBoundsNiceBuffer(dataMin, dMin, dataMax, dMax) ==
  LET desired == DesiredBoundsOff(dataMin, dMin, dataMax, dMax)
      niceRange == Abs(desired.max - desired.min)
  IN [min |-> BufferDiv * desired.min - niceRange, minOff |-> 0,
      max |-> BufferDiv * desired.max + niceRange, maxOff |-> 0]

\* The returned range: min and max in tenths of a tick, minOff and maxOff in
\* tenths of delta.
calculateYAxisBounds(dataMin, dMin, dataMax, dMax) ==
  LET desired == DesiredBoundsOff(dataMin, dMin, dataMax, dMax)
      dataRange == DataRange(dataMin, dataMax)
      dataRangeOff == DataRangeOff(dataMin, dMin, dataMax, dMax)
  IN [min |-> BufferDiv * desired.min - dataRange, minOff |-> 0 - dataRangeOff,
      max |-> BufferDiv * desired.max + dataRange, maxOff |-> dataRangeOff]

\* Data extrema handed to calculateYAxisBounds, in data units, and the two
\* half units of the documented example.
BoundValues == {0 - 20, 0 - 5, 0 - 3, 0 - 2, 0 - 1, 0, 1, 2, 3, 5, 7, 20}
BoundTicks ==
  {v * Scale : v \in BoundValues} \cup {0 - (Scale \div 2), Scale \div 2}

\* GeneralSigmoidChart.calculateYAxisRange on an instance whose bounds are
\* still undefined, at time t, for off-grid data.  The bounds and
\* lastScaleChange = t are set first; an expansion then returns the bounds
\* alone; otherwise the grace test compares t with itself, nothing shrinks
\* and the buffer is added.
calculateYAxisRangeFresh(dataMin, dMin, dataMax, dMax, t) ==
  LET desired == DesiredBoundsOff(dataMin, dMin, dataMax, dMax)
      \* dataMax > currentYMax and dataMin < currentYMin off the grid
      expanded == \/ dataMax > desired.max \/ (dataMax = desired.max /\ dMax > 0)
                  \/ dataMin < desired.min \/ (dataMin = desired.min /\ dMin < 0)
      dataRange == DataRange(dataMin, dataMax)
      dataRangeOff == DataRangeOff(dataMin, dMin, dataMax, dMax)
  IN
  IF expanded \/ GraceElapsed(t, t)
  THEN [expanded |-> expanded,
        min |-> BufferDiv * desired.min, minOff |-> 0,
        max |-> BufferDiv * desired.max, maxOff |-> 0]
  ELSE [expanded |-> FALSE,
        min |-> BufferDiv * desired.min - dataRange, minOff |-> 0 - dataRangeOff,
        max |-> BufferDiv * desired.max + dataRange, maxOff |-> dataRangeOff]

YbIdle == [applied |-> FALSE, dataMin |-> 0, dMin |-> 0, dataMax |-> 0,
           dMax |-> 0, min |-> 0, minOff |-> 0, max |-> 0, maxOff |-> 0,
           freshApplied |-> FALSE,
           fresh |-> [expanded |-> FALSE, min |-> 0, minOff |-> 0,
                      max |-> 0, maxOff |-> 0]]

yBoundsCall ==
  /\ ~yb.applied
  /\ LET r == calculateYAxisBounds(yb.dataMin, yb.dMin, yb.dataMax, yb.dMax) IN
       yb' = [yb EXCEPT !.applied = TRUE, !.min = r.min, !.minOff = r.minOff,
                        !.max = r.max, !.maxOff = r.maxOff]
  /\ UNCHANGED <<stabVars, fit, xb, vp, nice, moreVars>>

\* The first redraw of a new chart with the same data, at any time.
firstRangeCall ==
  /\ yb.applied /\ ~yb.freshApplied
  /\ \E t \in {0, SHRINK_GRACE_MS, MaxNow} :
       yb' = [yb EXCEPT !.freshApplied = TRUE,
                        !.fresh = calculateYAxisRangeFresh(
                                    yb.dataMin, yb.dMin, yb.dataMax, yb.dMax, t)]
  /\ UNCHANGED <<stabVars, fit, xb, vp, nice, moreVars>>

\* ----------------------------------- SigmoidMathService.calculateBandT
\* Times are counted in ticks of half the 0.001 threshold; logit values and
\* B in thousandths.
MIN_TIME_GAP == 2
TicksPerTime == 1000 * MIN_TIME_GAP

ERR_A_K == "A must be less than K"
ERR_Y0 == "Y(t0) must be strictly between A and K"
ERR_Y1 == "Y(t1) must be strictly between A and K"
ERR_T == "t0 and t1 must be different"
ERR_NU == "nu must be positive"
ERR_CLOSE == "Time points are too close together"
ERR_Z == "Calculation error: z must be strictly between 0 and 1"
ERR_DENOM == "Calculation error: Invalid denominator in logit calculation"
null == "null"

\* nu is the number sig * 10^exp, with exp = 0 (an integer) or exp = TinyExp.
Nu(sig, exp) == [sig |-> sig, exp |-> exp]
TinyExp == 0 - 17
NuLeqZero(nu) == nu.sig <= 0

validateFitInputsNuFirst(input) ==
  IF input.A >= input.K THEN ERR_A_K
  ELSE IF input.Y0 <= input.A \/ input.Y0 >= input.K THEN ERR_Y0
  ELSE IF input.Y1 <= input.A \/ input.Y1 >= input.K THEN ERR_Y1
  ELSE IF NuLeqZero(input.nu) THEN ERR_NU
  ELSE IF input.t0 = input.t1 THEN ERR_T
  ELSE IF Abs(input.t1 - input.t0) < MIN_TIME_GAP THEN ERR_CLOSE
  ELSE null

validateFitInputsNoGap(input) ==
  IF input.A >= input.K THEN ERR_A_K
  ELSE IF input.Y0 <= input.A \/ input.Y0 >= input.K THEN ERR_Y0
  ELSE IF input.Y1 <= input.A \/ input.Y1 >= input.K THEN ERR_Y1
  ELSE IF input.t0 = input.t1 THEN ERR_T
  ELSE IF NuLeqZero(input.nu) THEN ERR_NU
  ELSE null

validateFitInputs(input) ==
  IF input.A >= input.K THEN ERR_A_K
  ELSE IF input.Y0 <= input.A \/ input.Y0 >= input.K THEN ERR_Y0
  ELSE IF input.Y1 <= input.A \/ input.Y1 >= input.K THEN ERR_Y1
  ELSE IF input.t0 = input.t1 THEN ERR_T
  ELSE IF NuLeqZero(input.nu) THEN ERR_NU
  ELSE IF Abs(input.t1 - input.t0) < MIN_TIME_GAP THEN ERR_CLOSE
  ELSE null

RECURSIVE Gcd(_, _)
Gcd(a, b) == IF b = 0 THEN a ELSE Gcd(b, a % b)

RECURSIVE IntPow(_, _)
IntPow(b, n) == IF n <= 0 THEN 1 ELSE b * IntPow(b, n - 1)

\* Math.log of a positive integer, in thousandths.
LnMilli ==
  <<0, 693, 1099, 1386, 1609, 1792, 1946, 2079, 2197, 2303,
    2398, 2485, 2565, 2639, 2708, 2773, 2833, 2890, 2944, 2996>>

\* Math.log(num / den) for positive integers, the fraction in lowest terms.
MathLog(num, den) ==
  LET g == Gcd(num, den) IN LnMilli[num \div g] - LnMilli[den \div g]

\* Math.pow(z, nu) in double precision for z = p / q in [1/100, 100]: exact
\* for integer nu; for 0 < nu <= 10^-17 the value 1 + nu * ln z lies within
\* 2^-54 of 1 and rounds to the double 1.
MathPow(z, nu) ==
  IF nu.exp = 0 THEN <<IntPow(z[1], nu.sig), IntPow(z[2], nu.sig)>>
  ELSE <<1, 1>>

\* z is the fraction <<p, q>> with q > 0; nu is positive.
generalizedLogit(z, nu) ==
  IF z[1] <= 0 \/ z[1] >= z[2]
  THEN [threw |-> TRUE, error |-> ERR_Z, v |-> 0]
  ELSE LET zPowNu == MathPow(z, nu) IN
       IF zPowNu[2] - zPowNu[1] <= 0
       THEN [threw |-> TRUE, error |-> ERR_DENOM, v |-> 0]
       ELSE [threw |-> FALSE, error |-> null,
             v |-> MathLog(nu.sig * zPowNu[1], zPowNu[2] - zPowNu[1])]

RealDivMagnitude(a, b) == Abs(a) \div Abs(b)

\* Division of reals, truncated to the fixed-point grid (b # 0).
RealDiv(a, b) == MathSign(a) * MathSign(b) * (Abs(a) \div Abs(b))

Finite(v) == [kind |-> "finite", v |-> v]
NaN == [kind |-> "NaN", v |-> 0]
Infinity == [kind |-> "Infinity", v |-> 0]
NegInfinity == [kind |-> "-Infinity", v |-> 0]

InflectionTimePlus(t0, L0, dL, dt) ==
  IF dL = 0
  THEN IF L0 = 0 THEN NaN
       ELSE IF MathSign(L0) * MathSign(dt) > 0 THEN NegInfinity ELSE Infinity
  ELSE Finite(t0 + RealDiv(L0 * dt, dL))

\* t0 - L0 / B in IEEE arithmetic: B = 0 / dt is a zero with the sign of dt,
\* L0 / B is then NaN for L0 = 0 and an infinity with the sign of L0 * dt
\* otherwise; nothing is thrown.
InflectionTime(t0, L0, dL, dt) ==
  IF dL = 0
  THEN IF L0 = 0 THEN NaN
       ELSE IF MathSign(L0) * MathSign(dt) > 0 THEN NegInfinity ELSE Infinity
  ELSE Finite(t0 - RealDiv(L0 * dt, dL))

calculateBandT(input) ==
  LET validationError == validateFitInputs(input) IN
  IF validationError # null
  THEN [B |-> 0, T |-> Finite(0), isValid |-> FALSE, error |-> validationError]
  ELSE LET z0 == <<input.Y0 - input.A, input.K - input.A>>
           z1 == <<input.Y1 - input.A, input.K - input.A>>
           L0 == generalizedLogit(z0, input.nu)
           L1 == generalizedLogit(z1, input.nu) IN
       IF L0.threw
       THEN [B |-> 0, T |-> Finite(0), isValid |-> FALSE, error |-> L0.error]
       ELSE IF L1.threw
       THEN [B |-> 0, T |-> Finite(0), isValid |-> FALSE, error |-> L1.error]
       ELSE [B |-> RealDiv((L1.v - L0.v) * TicksPerTime, input.t1 - input.t0),
             T |-> InflectionTime(input.t0, L0.v, L1.v - L0.v, input.t1 - input.t0),
             isValid |-> TRUE, error |-> null]

\* The inputs of the fit: asymptotes and observations in data units, times
\* in ticks, nu an integer or 10^-17.
FitAsymptotes == {0, 1, 4}
FitObservations == 0..4
FitTimes0 == {0, MIN_TIME_GAP}
FitTimes1 == {0, 1, MIN_TIME_GAP, TicksPerTime}
FitNus == {Nu(0, 0), Nu(1, 0), Nu(2, 0), Nu(1, TinyExp)}

FitInputs ==
  [A : FitAsymptotes, K : FitAsymptotes, t0 : FitTimes0, Y0 : FitObservations,
   t1 : FitTimes1, Y1 : FitObservations, nu : FitNus]

NoFitResult == [B |-> 0, T |-> Finite(0), isValid |-> FALSE, error |-> null]
FitIdle == [applied |-> FALSE,
            in |-> [A |-> 0, K |-> 0, t0 |-> 0, Y0 |-> 0, t1 |-> 0, Y1 |-> 0, nu |-> Nu(0, 0)],
            out |-> NoFitResult]

fitCall ==
  /\ ~fit.applied
  /\ fit' = [applied |-> TRUE, in |-> fit.in, out |-> calculateBandT(fit.in)]
  /\ UNCHANGED <<stabVars, yb, xb, vp, nice, moreVars>>

\* -------------------------------- SigmoidDataService.calculateXAxisBounds
\* Times and logarithms are counted in thousandths (LogScale); a returned
\* range carries the 10% padding and is counted in tenths of that
\* (PaddingDiv).  The rate B is the number sign / den.
LogScale == Pow10(3)
PaddingDiv == 10
Rate(sign, den) == [sign |-> sign, den |-> den]

\* Math.log of a positive integer, in thousandths.
LnInteger(n) ==
  IF n <= Len(LnMilli) THEN LnMilli[n]
  ELSE CASE n = 99 -> 4595
         [] n = 199 -> 5293
         [] n = 9999 -> 9210
         [] n = 19602 -> 9883

\* Math.log(term) for the fraction term = <<num, den>> > 0.
MathLogTerm(term) ==
  LET g == Gcd(term[1], term[2]) IN
  LnInteger(term[1] \div g) - LnInteger(term[2] \div g)

\* (Math.pow(1 / p, nu) - 1) / nu as a fraction, 1 / p = <<a, b>>.  For
\* nu = 10^-17 the power is the double 1 and the term is 0.
LogArgument(invP, nu) ==
  LET pw == MathPow(invP, nu) IN
  IF nu.exp = 0 THEN <<pw[1] - pw[2], pw[2] * nu.sig>> ELSE <<0, 1>>

FallbackRange ==
  [min |-> Finite(0 - 10 * PaddingDiv * LogScale),
   max |-> Finite(10 * PaddingDiv * LogScale)]

FallsBackOnZeroRateOnly(term01, term99, B) == B.sign = 0

FallsBack(term01, term99, B) ==
  term01[1] <= 0 \/ term99[1] <= 0 \/ B.sign = 0

\* T - Math.log(term) / B for finite T and B # 0.
PercentileTime(T, term, B) ==
  T * LogScale - B.sign * B.den * MathLogTerm(term)

\* Math.max(range * 0.1, 1), in tenths of a thousandth.
PaddingTenPercent(range) == range

Padding(range) == MathMax(range, PaddingDiv * LogScale)

\* The locals t01 and t99 are kept with the result.  Past the fallback test
\* a non-finite T, or terms that are both zero (Math.log gives -Infinity
\* twice), make range = NaN and so both results NaN.
calculateXAxisBounds(params) ==
  LET term01 == LogArgument(<<100, 1>>, params.nu)
      term99 == LogArgument(<<100, 99>>, params.nu) IN
  IF FallsBack(term01, term99, params.B)
  THEN [fellBack |-> TRUE, t01 |-> 0, t99 |-> 0, out |-> FallbackRange]
  ELSE IF params.T.kind # "finite" \/ (term01[1] = 0 /\ term99[1] = 0)
  THEN [fellBack |-> FALSE, t01 |-> 0, t99 |-> 0,
        out |-> [min |-> NaN, max |-> NaN]]
  ELSE LET t01 == PercentileTime(params.T.v, term01, params.B)
           t99 == PercentileTime(params.T.v, term99, params.B)
           tMin == MathMin(t01, t99)
           tMax == MathMax(t01, t99)
           range == tMax - tMin
           padding == Padding(range) IN
       [fellBack |-> FALSE, t01 |-> t01, t99 |-> t99,
        out |-> [min |-> Finite(PaddingDiv * tMin - padding),
                 max |-> Finite(PaddingDiv * tMax + padding)]]

\* Parameters the charts pass: A < K and nu > 0 as accepted by the fit, B of
\* either sign, and with B = 0 the T that the fit returns for equal
\* observations.
XAsymptotes == {1, 4}
XRateDens == {1, 2, 10}
XRates == {Rate(0, 1)} \cup {Rate(sg, dn) : sg \in {0 - 1, 1}, dn \in XRateDens}
XTimes == {0 - 3, 0, 2}
XNus == {Nu(1, 0), Nu(2, 0), Nu(1, TinyExp)}
XParams ==
  {q \in [A : {0}, K : XAsymptotes, B : XRates,
          T : {Finite(t) : t \in XTimes} \cup {NaN, Infinity, NegInfinity},
          nu : XNus] :
     q.T.kind # "finite" => q.B.sign = 0}

XbIdle == [applied |-> FALSE,
           params |-> [A |-> 0, K |-> 1, B |-> Rate(0, 1), T |-> Finite(0),
                       nu |-> Nu(1, 0)],
           fellBack |-> FALSE, t01 |-> 0, t99 |-> 0,
           out |-> [min |-> Finite(0), max |-> Finite(0)]]

xBoundsCall ==
  /\ ~xb.applied
  /\ LET r == calculateXAxisBounds(xb.params) IN
       xb' = [xb EXCEPT !.applied = TRUE, !.fellBack = r.fellBack,
                        !.t01 = r.t01, !.t99 = r.t99, !.out = r.out]
  /\ UNCHANGED <<stabVars, yb, fit, vp, nice, moreVars>>

\* ------------------------------- SigmoidMathService.validateParameters
ERR_B == "B must be positive"

validateParametersRateFirst(params) ==
  IF params.B.sign <= 0 THEN ERR_B
  ELSE IF params.A >= params.K THEN ERR_A_K
  ELSE IF NuLeqZero(params.nu) THEN ERR_NU
  ELSE null

validateParameters(params) ==
  IF params.A >= params.K THEN ERR_A_K
  ELSE IF params.B.sign <= 0 THEN ERR_B
  ELSE IF NuLeqZero(params.nu) THEN ERR_NU
  ELSE null

\* Any complete parameter set; otherT is the T of a second call with the
\* other four parameters unchanged.
VpRates == {Rate(0 - 1, 1), Rate(0, 1), Rate(1, 1), Rate(1, 2)}
VpTimes == {Finite(0 - 3), Finite(0), Finite(2), NaN}
VpNus == {Nu(0 - 1, 0), Nu(0, 0), Nu(1, 0), Nu(1, TinyExp)}
VpParams ==
  [A : FitAsymptotes, K : FitAsymptotes, B : VpRates, T : VpTimes, nu : VpNus]

VpIdle == [applied |-> FALSE,
           params |-> [A |-> 0, K |-> 1, B |-> Rate(1, 1), T |-> Finite(0),
                       nu |-> Nu(1, 0)],
           otherT |-> Finite(0), out |-> null, outOther |-> null]

validateParametersCall ==
  /\ ~vp.applied
  /\ vp' = [vp EXCEPT !.applied = TRUE,
                      !.out = validateParameters(vp.params),
                      !.outOther =
                        validateParameters([vp.params EXCEPT !.T = vp.otherT])]
  /\ UNCHANGED <<stabVars, yb, fit, xb, nice, moreVars>>

\* ------------------------------------------- the 1-2-5 helpers, called alone
\* niceCeil and niceFloor take x + d * delta for a grid value x of at least
\* two ticks; stepUp and stepDown take a value of the sequence itself.
NiceArgs == 2..MaxNice
StepValues ==
  {sg * c * Pow10(e) : sg \in {0 - 1, 1}, c \in {1, 2, 5}, e \in 0..Prec}
    \ {0 - 1, 1}

\* upperBound and lowerBound take 0 or x + d * delta of either sign.
BoundArgs == {x \in (0 - MaxNice)..MaxNice : x = 0 \/ Abs(x) \in NiceArgs}

NiceIdle == [applied |-> FALSE, op |-> "none", x |-> 0, d |-> 0,
             ceil |-> 0, floor |-> 0,
             up |-> 0, down |-> 0, downUp |-> 0, upDown |-> 0,
             upper |-> 0, lower |-> 0, upperOfNeg |-> 0]

niceCall ==
  /\ ~nice.applied
  /\ nice.op = "nice"
  /\ nice' = [nice EXCEPT !.applied = TRUE,
                          !.ceil = niceCeilOff(nice.x, nice.d),
                          !.floor = niceFloorOff(nice.x, nice.d)]
  /\ UNCHANGED <<stabVars, yb, fit, xb, vp, moreVars>>

\* upperBound(v), lowerBound(v) and upperBound(-v).
boundCall ==
  /\ ~nice.applied
  /\ nice.op = "bound"
  /\ nice' = [nice EXCEPT !.applied = TRUE,
                          !.upper = upperBoundOff(nice.x, nice.d),
                          !.lower = lowerBoundOff(nice.x, nice.d),
                          !.upperOfNeg = upperBoundOff(0 - nice.x, 0 - nice.d)]
  /\ UNCHANGED <<stabVars, yb, fit, xb, vp, moreVars>>

stepCall ==
  /\ ~nice.applied
  /\ nice.op = "step"
  /\ nice' = [nice EXCEPT !.applied = TRUE,
                          !.up = stepUp(nice.x),
                          !.down = stepDown(nice.x),
                          !.downUp = stepDown(stepUp(nice.x)),
                          !.upDown = stepUp(stepDown(nice.x))]
  /\ UNCHANGED <<stabVars, yb, fit, xb, vp, moreVars>>


\* ------------------------------------------------------- specifications
\* ------------------------ evaluateSigmoid followed by calculateBandT
\* The rate is a multiple of ln 2 and the times are such that
\* B (t - T) = n ln 2 for a whole n, so that Math.exp(-B (t - T)) = 2^-n.
\* In double precision 1 + 2^-n is 1 from n = MantissaBits on, and
\* 1 + nu 2^-n is 1 for nu = 10^-17 and n >= -3: evaluateSigmoid then
\* returns K itself.
MantissaBits == 53
Ln2 == LnMilli[2]

Doublings(t, params) == (params.B * (t - params.T)) \div (Ln2 * TicksPerTime)

evaluateSigmoid(t, params) ==
  LET n == Doublings(t, params)
      span == params.K - params.A IN
  IF params.nu.exp # 0 \/ n >= MantissaBits THEN params.K
  ELSE IF n >= 0
  THEN params.A + (span * IntPow(2, n)) \div (IntPow(2, n) + 1)
  ELSE params.A + span \div (1 + IntPow(2, 0 - n))

\* A < K with K - A = 90, a multiple of 2, 3, 5 and 9 so that the values of
\* the curve at n = -3 .. 3 are whole; B = ln 2 or 2 ln 2; nu = 1 or 10^-17.
RtSpan == 2 * 5 * 9
RtLows == {0, 1}
RtRates == {Ln2, 2 * Ln2}
RtInflections == {0, TicksPerTime}
RtTimes ==
  {(k * TicksPerTime) \div 2 : k \in (0 - 6)..6} \cup {30 * TicksPerTime}
RtNus == {Nu(1, 0), Nu(1, TinyExp)}
RtParams ==
  {q \in [A : RtLows, K : {a + RtSpan : a \in RtLows}, B : RtRates,
          T : RtInflections, nu : RtNus] : q.K = q.A + RtSpan}

\* t is a time at which B (t - T) is a whole number of ln 2, between -3 and
\* 3 or on the upper plateau.
RtTimeOk(t, params) ==
  /\ (params.B * (t - params.T)) % (Ln2 * TicksPerTime) = 0
  /\ \/ Doublings(t, params) \in (0 - 3)..3
     \/ Doublings(t, params) >= MantissaBits

RtIdle == [applied |-> FALSE,
           params |-> [A |-> 0, K |-> RtSpan, B |-> Ln2, T |-> 0, nu |-> Nu(1, 0)],
           t0 |-> 0, t1 |-> 0, Y0 |-> 0, Y1 |-> 0, out |-> NoFitResult]

roundTripCall ==
  /\ ~rt.applied
  /\ LET Y0 == evaluateSigmoid(rt.t0, rt.params)
         Y1 == evaluateSigmoid(rt.t1, rt.params) IN
       rt' = [rt EXCEPT !.applied = TRUE, !.Y0 = Y0, !.Y1 = Y1,
                        !.out = calculateBandT(
                                  [A |-> rt.params.A, K |-> rt.params.K,
                                   t0 |-> rt.t0, Y0 |-> Y0, t1 |-> rt.t1,
                                   Y1 |-> Y1, nu |-> rt.params.nu])]
  /\ UNCHANGED <<stabVars, yb, fit, xb, vp, nice, form, legacy>>

\* ---- GuestimateForm and SigmoidParametersService ----
\* Asymptotes, observations and K2 are in tenths, times in ticks, nu as in
\* the fit.  A signal holding null is None, one holding v is Some(v).
None == [set |-> FALSE]
Some(v) == [set |-> TRUE, v |-> v]

ERR_FORM == "Please fill in all fields correctly"

FormDefaults ==
  [A |-> 0, K |-> 10, Y0 |-> 1, Y1 |-> 2, t0 |-> 0, t1 |-> 12 * TicksPerTime,
   nu |-> Nu(1, 0)]

\* K * 0.8 for K a multiple of 0.5.
ScenarioDefault(K) == (K * 8) \div 10

\* The state of the component and of the service before ngOnInit.
FormIdle ==
  [initialized |-> FALSE, values |-> FormDefaults, blank |-> {},
   enableScenario |-> FALSE, K2 |-> ScenarioDefault(FormDefaults.K),
   k2Invalid |-> FALSE, error |-> null,
   calculated |-> None, calculated2 |-> None,
   parameters |-> None, dataPoints |-> None, scenarioParameters |-> None,
   run |-> [controlsValid |-> FALSE, fitValid |-> FALSE]]

\* Validators.required on every control and Validators.min(0.01) on nu.
FormValid(f) ==
  /\ f.blank = {}
  /\ f.values.nu.sig > 0
  /\ f.values.nu.exp >= 0 - 2

\* The branch of calculate for a valid fit.
PublishFit(f, result, result2) ==
  [f EXCEPT
     !.calculated = Some([B |-> result.B, T |-> result.T]),
     !.error = null,
     !.parameters = Some([A |-> f.values.A, K |-> f.values.K, B |-> result.B,
                          T |-> result.T, nu |-> f.values.nu]),
     !.dataPoints = Some([t0 |-> f.values.t0, Y0 |-> f.values.Y0,
                          t1 |-> f.values.t1, Y1 |-> f.values.Y1]),
     !.calculated2 = IF f.enableScenario /\ result2.isValid
                     THEN Some([B |-> result2.B, T |-> result2.T]) ELSE None,
     !.scenarioParameters =
        IF f.enableScenario /\ result2.isValid
        THEN Some([K2 |-> f.K2, B2 |-> result2.B, T2 |-> result2.T]) ELSE None]

ClearFitKeepsPoints(f, result) ==
  [f EXCEPT !.calculated = None, !.calculated2 = None, !.error = result.error,
            !.parameters = None, !.scenarioParameters = None]

\* The branch of calculate for an invalid fit.
ClearFit(f, result) ==
  [f EXCEPT !.calculated = None, !.calculated2 = None, !.error = result.error,
            !.parameters = None, !.dataPoints = None,
            !.scenarioParameters = None]

\* GuestimateForm.calculate on the component state f.
calculate(f) ==
  IF ~FormValid(f)
  THEN [f EXCEPT !.error = ERR_FORM, !.calculated = None, !.calculated2 = None,
                 !.run = [controlsValid |-> FALSE, fitValid |-> FALSE]]
  ELSE
    LET k2Invalid == f.enableScenario /\ ~(f.K2 > f.values.A /\ f.K2 < f.values.K)
        result == calculateBandT(f.values)
        result2 == IF f.enableScenario /\ ~k2Invalid
                   THEN calculateBandT([f.values EXCEPT !.K = f.K2])
                   ELSE NoFitResult
        g == [f EXCEPT !.k2Invalid = k2Invalid,
                       !.run = [controlsValid |-> TRUE, fitValid |-> result.isValid]]
    IN IF result.isValid THEN PublishFit(g, result, result2)
       ELSE ClearFit(g, result)

\* The values a control can be given.
ControlValues ==
  [A |-> {0}, K |-> {5, 10}, Y0 |-> {1}, Y1 |-> {2, 9}, t0 |-> {0},
   t1 |-> {0, 12 * TicksPerTime}, nu |-> {Nu(0, 0), Nu(1, 0)}]
FormK2s == {4, 8}
Blankable == {"K", "nu"}

\* ngOnInit: the controls and the scenario mode come from the query
\* parameters, then calculate runs.
ngOnInit ==
  /\ ~form.initialized
  /\ \E A \in ControlValues.A, K \in ControlValues.K, Y0 \in ControlValues.Y0,
        Y1 \in ControlValues.Y1, t0 \in ControlValues.t0, t1 \in ControlValues.t1,
        nu \in ControlValues.nu, scenario \in BOOLEAN, hasK2 \in BOOLEAN, k2 \in FormK2s :
       form' = calculate([form EXCEPT
                 !.initialized = TRUE,
                 !.values = [A |-> A, K |-> K, Y0 |-> Y0, Y1 |-> Y1, t0 |-> t0,
                             t1 |-> t1, nu |-> nu],
                 !.enableScenario = scenario,
                 !.K2 = IF ~scenario THEN form.K2
                        ELSE IF hasK2 THEN k2 ELSE ScenarioDefault(K)])
  /\ UNCHANGED <<stabVars, yb, fit, xb, vp, nice, rt, legacy>>

\* form.valueChanges after an edit of one control: it takes a new value or
\* is emptied, then calculate runs.
valueChange ==
  /\ form.initialized
  /\ \E c \in DOMAIN ControlValues :
       \/ \E x \in ControlValues[c] :
            form' = calculate([form EXCEPT !.values[c] = x,
                                           !.blank = form.blank \ {c}])
       \/ /\ c \in Blankable
          /\ form' = calculate([form EXCEPT !.blank = form.blank \cup {c}])
  /\ UNCHANGED <<stabVars, yb, fit, xb, vp, nice, rt, legacy>>

\* A drag in the chart: setDataPointsFromChart, then the effect patches the
\* four observation controls and calculate runs.
chartDrag ==
  /\ form.initialized
  /\ \E t0 \in ControlValues.t0, Y0 \in ControlValues.Y0,
        t1 \in ControlValues.t1, Y1 \in ControlValues.Y1 :
       LET points == [t0 |-> t0, Y0 |-> Y0, t1 |-> t1, Y1 |-> Y1] IN
       form' = calculate([form EXCEPT
                 !.dataPoints = Some(points),
                 !.values = [form.values EXCEPT !.t0 = t0, !.Y0 = Y0,
                                                !.t1 = t1, !.Y1 = Y1],
                 !.blank = form.blank \ {"t0", "Y0", "t1", "Y1"}])
  /\ UNCHANGED <<stabVars, yb, fit, xb, vp, nice, rt, legacy>>

\* The scenario switch is set by its binding, then onScenarioToggle runs.
onScenarioToggle ==
  /\ form.initialized
  /\ \E enabled \in BOOLEAN :
       form' = calculate([form EXCEPT
                 !.enableScenario = enabled,
                 !.K2 = IF ~enabled THEN form.K2
                        ELSE IF "K" \in form.blank THEN ScenarioDefault(10)
                        ELSE ScenarioDefault(form.values.K)])
  /\ UNCHANGED <<stabVars, yb, fit, xb, vp, nice, rt, legacy>>

\* K2 is set by its binding, then onK2Change runs.
onK2Change ==
  /\ form.initialized
  /\ \E k2 \in FormK2s : form' = calculate([form EXCEPT !.K2 = k2])
  /\ UNCHANGED <<stabVars, yb, fit, xb, vp, nice, rt, legacy>>

\* resetForm: form.reset emits valueChanges, so calculate runs with the
\* scenario mode and K2 as they were; they are reset afterwards.
resetForm ==
  /\ form.initialized
  /\ form' = [calculate([form EXCEPT !.values = FormDefaults, !.blank = {}])
                EXCEPT !.enableScenario = FALSE,
                       !.K2 = ScenarioDefault(FormDefaults.K)]
  /\ UNCHANGED <<stabVars, yb, fit, xb, vp, nice, rt, legacy>>

\* ---- SigmoidChart (legacy): one shrinkStableCount, no buffer ----
\* Its private almostEqual ... stepDown are the same functions as the data
\* service's.  The record holds the fields of the component, the clock, and
\* what the last call did; qualRunMax and qualRunMin observe the length of
\* the current run of calls that qualify for a shrink of that end (capped).
LegacyIdle ==
  [currentYMin |-> undefined, currentYMax |-> undefined, lastScaleChange |-> 0,
   shrinkStableCount |-> 0, now |-> 0, made |-> FALSE, first |-> FALSE,
   expanded |-> FALSE, shrunkMax |-> FALSE, shrunkMin |-> FALSE,
   ret |-> [min |-> 0, max |-> 0], qualRunMax |-> 0, qualRunMin |-> 0]

\* "Check for shrinking (deferred with hysteresis)" with the grace period
\* over: both ends count on the same counter.
LegacyShrink(curMin, curMax, count, dataMin, dataMax) ==
  LET candidateMax == stepDown(curMax)
      candidateMin == stepDown(curMin)
      fitsMax == dataMax <= candidateMax
      fitsMin == dataMin >= candidateMin
      count1 == IF fitsMax THEN count + 1 ELSE count
      shrunkMax == fitsMax /\ count1 >= SHRINK_STABLE_THRESHOLD
      count2 == IF fitsMin THEN count1 + 1 ELSE count1
      shrunkMin == fitsMin /\ count2 >= SHRINK_STABLE_THRESHOLD
  IN [max |-> IF shrunkMax THEN candidateMax ELSE curMax,
      min |-> IF shrunkMin THEN candidateMin ELSE curMin,
      shrunkMax |-> shrunkMax, shrunkMin |-> shrunkMin,
      count |-> IF ~(fitsMax /\ fitsMin) \/ shrunkMax \/ shrunkMin THEN 0
                ELSE count2,
      stamped |-> fitsMax /\ fitsMin /\ (shrunkMax \/ shrunkMin)]

\* SigmoidChart.calculateYAxisRange on the component state L, with A, K the
\* chart's parameters and t the value Date.now() returns.
LegacyRange(L, A, K, t) ==
  LET dataMin == MathMin(A, K)
      dataMax == MathMax(A, K)
      desired == DesiredBounds(dataMin, dataMax)
      first == L.currentYMin = undefined \/ L.currentYMax = undefined
      ex == Expand(L.currentYMin[1], L.currentYMax[1], desired, dataMin, dataMax)
      sh == LegacyShrink(L.currentYMin[1], L.currentYMax[1],
                         L.shrinkStableCount, dataMin, dataMax)
      \* a call that qualifies for a shrink: initialized, no expansion,
      \* grace period over, and the data within stepDown of that end
      qualifies == /\ ~first
                   /\ ~(dataMax > L.currentYMax[1]) /\ ~(dataMin < L.currentYMin[1])
                   /\ t - L.lastScaleChange >= SHRINK_GRACE_MS
      qualMax == qualifies /\ dataMax <= stepDown(L.currentYMax[1])
      qualMin == qualifies /\ dataMin >= stepDown(L.currentYMin[1])
      M == [L EXCEPT !.now = t, !.made = TRUE, !.first = first,
                     !.expanded = FALSE, !.shrunkMax = FALSE, !.shrunkMin = FALSE,
                     !.qualRunMax = IF qualMax THEN MathMin(L.qualRunMax + 1, RunCap)
                                    ELSE 0,
                     !.qualRunMin = IF qualMin THEN MathMin(L.qualRunMin + 1, RunCap)
                                    ELSE 0]
  IN
  IF first
  THEN [M EXCEPT !.currentYMin = <<desired.min>>, !.currentYMax = <<desired.max>>,
                 !.lastScaleChange = t, !.shrinkStableCount = 0,
                 !.ret = [min |-> desired.min, max |-> desired.max]]
  ELSE IF ex.expanded
  THEN [M EXCEPT !.currentYMin = <<ex.min>>, !.currentYMax = <<ex.max>>,
                 !.lastScaleChange = t, !.shrinkStableCount = 0,
                 !.expanded = TRUE,
                 !.ret = [min |-> ex.min, max |-> ex.max]]
  ELSE IF GraceElapsed(t, L.lastScaleChange)
  THEN [M EXCEPT !.currentYMin = <<sh.min>>, !.currentYMax = <<sh.max>>,
                 !.lastScaleChange = IF sh.stamped THEN t ELSE L.lastScaleChange,
                 !.shrinkStableCount = sh.count,
                 !.shrunkMax = sh.shrunkMax, !.shrunkMin = sh.shrunkMin,
                 !.ret = [min |-> sh.min, max |-> sh.max]]
  ELSE [M EXCEPT !.shrinkStableCount = 0,
                 !.ret = [min |-> L.currentYMin[1], max |-> L.currentYMax[1]]]

\* The bounds a call of the legacy chart starts from are above the lowest tick.
LegacyInGrid(L, A, K) ==
  LET desired == DesiredBounds(MathMin(A, K), MathMax(A, K))
      first == L.currentYMin = undefined \/ L.currentYMax = undefined IN
  /\ InGrid(IF first THEN desired.max ELSE L.currentYMax[1])
  /\ InGrid(IF first THEN desired.min ELSE L.currentYMin[1])

\* SigmoidChart.updateChart: one redraw with the current A, K and clock.
legacyUpdateChart ==
  /\ \E A \in ParamValues, K \in ParamValues, dt \in ClockSteps :
        /\ legacy.now + dt <= MaxNow
        /\ LegacyInGrid(legacy, A * Scale, K * Scale)
        /\ legacy' = LegacyRange(legacy, A * Scale, K * Scale, legacy.now + dt)
  /\ UNCHANGED <<stabVars, yb, fit, xb, vp, nice, rt, form>>


PureIdle ==
  xb = XbIdle /\ vp = VpIdle /\ nice = NiceIdle /\ rt = RtIdle

MoreIdle == form = FormIdle /\ legacy = LegacyIdle

Init ==
  /\ StabInit
  /\ yb = YbIdle
  /\ fit = FitIdle
  /\ PureIdle
  /\ MoreIdle

Next == updateChart

Spec == Init /\ [][Next]_vars

\* The chart is redrawn again and again and the clock runs.
NextSame == redrawSame \/ clockTick

SpecSame ==
  Init /\ [][NextSame]_vars /\ WF_vars(redrawSame) /\ WF_vars(clockTick)

InitBounds ==
  /\ StabInit
  /\ fit = FitIdle
  /\ PureIdle
  /\ MoreIdle
  /\ \E lo \in BoundTicks, hi \in BoundTicks, dlo \in Offsets, dhi \in Offsets :
        /\ lo < hi \/ (lo = hi /\ dlo <= dhi)
        /\ lo = 0 => dlo = 0
        /\ hi = 0 => dhi = 0
        /\ yb = [YbIdle EXCEPT !.dataMin = lo, !.dMin = dlo,
                               !.dataMax = hi, !.dMax = dhi]

NextBounds == yBoundsCall \/ firstRangeCall

SpecBounds == InitBounds /\ [][NextBounds]_vars

InitFit ==
  /\ StabInit
  /\ yb = YbIdle
  /\ PureIdle
  /\ MoreIdle
  /\ \E input \in FitInputs :
        fit = [applied |-> FALSE, in |-> input, out |-> NoFitResult]

NextFit == fitCall

SpecFit == InitFit /\ [][NextFit]_vars

InitXBounds ==
  /\ StabInit
  /\ rt = RtIdle
  /\ MoreIdle
  /\ yb = YbIdle
  /\ fit = FitIdle
  /\ vp = VpIdle
  /\ nice = NiceIdle
  /\ \E q \in XParams : xb = [XbIdle EXCEPT !.params = q]

NextXBounds == xBoundsCall

SpecXBounds == InitXBounds /\ [][NextXBounds]_vars

InitParams ==
  /\ StabInit
  /\ rt = RtIdle
  /\ MoreIdle
  /\ yb = YbIdle
  /\ fit = FitIdle
  /\ xb = XbIdle
  /\ nice = NiceIdle
  /\ \E q \in VpParams, t \in VpTimes :
        vp = [VpIdle EXCEPT !.params = q, !.otherT = t]

NextParams == validateParametersCall

SpecParams == InitParams /\ [][NextParams]_vars

InitNice ==
  /\ StabInit
  /\ rt = RtIdle
  /\ MoreIdle
  /\ yb = YbIdle
  /\ fit = FitIdle
  /\ xb = XbIdle
  /\ vp = VpIdle
  /\ \/ \E x \in NiceArgs, d \in Offsets :
          nice = [NiceIdle EXCEPT !.op = "nice", !.x = x, !.d = d]
     \/ \E v \in StepValues :
          nice = [NiceIdle EXCEPT !.op = "step", !.x = v]
     \/ \E x \in BoundArgs, d \in Offsets :
          /\ x = 0 => d = 0
          /\ nice = [NiceIdle EXCEPT !.op = "bound", !.x = x, !.d = d]

NextNice == niceCall \/ stepCall \/ boundCall

SpecNice == InitNice /\ [][NextNice]_vars

InitRoundTrip ==
  /\ StabInit
  /\ yb = YbIdle
  /\ fit = FitIdle
  /\ xb = XbIdle /\ vp = VpIdle /\ nice = NiceIdle
  /\ MoreIdle
  /\ \E q \in RtParams, t0 \in RtTimes, t1 \in RtTimes :
        /\ Abs(t1 - t0) >= MIN_TIME_GAP
        /\ RtTimeOk(t0, q) /\ RtTimeOk(t1, q)
        /\ rt = [RtIdle EXCEPT !.params = q, !.t0 = t0, !.t1 = t1]

NextRoundTrip == roundTripCall

SpecRoundTrip == InitRoundTrip /\ [][NextRoundTrip]_vars

NextForm ==
  \/ ngOnInit
  \/ valueChange
  \/ chartDrag
  \/ onScenarioToggle
  \/ onK2Change
  \/ resetForm

SpecForm == Init /\ [][NextForm]_vars

NextLegacy == legacyUpdateChart

SpecLegacy == Init /\ [][NextLegacy]_vars

\* ---------------------------------------------------------------- claims
Initialized == currentYMin # undefined /\ currentYMax # undefined

\* C1: every call of calculateYAxisRange returns
\* {min: currentMin - buffer, max: currentMax + buffer} with currentMin and
\* currentMax the state after the call and buffer = 0.1 * |dataMax - dataMin|.
C1_ReturnIsBuffered ==
  call.made =>
    ret = [min |-> BufferDiv * currentYMin[1] - Abs(call.dataMax - call.dataMin),
           max |-> BufferDiv * currentYMax[1] + Abs(call.dataMax - call.dataMin)]

\* C2: after every call the data lies inside the current bounds:
\* currentMin <= dataMin and dataMax <= currentMax.
C2_DataInsideBounds ==
  call.made => (currentYMin[1] <= call.dataMin /\ call.dataMax <= currentYMax[1])

\* C3 (as stated): in an initialized state a call with dataMax > currentMax
\* sets currentMax to the nice upper bound of dataMax, a call with
\* dataMin < currentMin sets currentMin to the nice lower bound of dataMin,
\* and either sets lastScaleChange to now and both stable-counters to 0.
C3_ExpansionAdoptsNiceBound ==
  [][ (Initialized /\ call'.made) =>
        /\ (call'.dataMax > currentYMax[1]) =>
              /\ currentYMax' = <<upperBound(call'.dataMax)>>
              /\ lastScaleChange' = now'
              /\ shrinkStableCountMin' = 0 /\ shrinkStableCountMax' = 0
        /\ (call'.dataMin < currentYMin[1]) =>
              /\ currentYMin' = <<lowerBound(call'.dataMin)>>
              /\ lastScaleChange' = now'
              /\ shrinkStableCountMin' = 0 /\ shrinkStableCountMax' = 0 ]_vars

\* The desired bounds written out: the nice bounds, and for flat input
\* (equal nice bounds) [-1, 1] at zero, else the upper bound one notch up.
FlatInput(dataMin, dataMax) == upperBound(dataMax) = lowerBound(dataMin)

DesiredUpper(dataMin, dataMax) ==
  IF ~FlatInput(dataMin, dataMax) THEN upperBound(dataMax)
  ELSE IF upperBound(dataMax) = 0 THEN Scale
  ELSE stepUp(upperBound(dataMax))

DesiredLower(dataMin, dataMax) ==
  IF FlatInput(dataMin, dataMax) /\ upperBound(dataMax) = 0 THEN 0 - Scale
  ELSE lowerBound(dataMin)

\* C3 (amended): in an initialized state a call with dataMax > currentMax
\* sets currentMax in that same call to the desired upper bound of the call
\* (the nice upper bound of dataMax, after the flat-input fallback), a call
\* with dataMin < currentMin sets currentMin to the desired lower bound, and
\* either sets lastScaleChange to now and both stable-counters to 0,
\* whatever the timestamp and the counters were.
C3_ExpansionImmediate ==
  [][ (Initialized /\ call'.made) =>
        /\ (call'.dataMax > currentYMax[1]) =>
              /\ currentYMax' = <<DesiredUpper(call'.dataMin, call'.dataMax)>>
              /\ lastScaleChange' = now'
              /\ shrinkStableCountMin' = 0 /\ shrinkStableCountMax' = 0
        /\ (call'.dataMin < currentYMin[1]) =>
              /\ currentYMin' = <<DesiredLower(call'.dataMin, call'.dataMax)>>
              /\ lastScaleChange' = now'
              /\ shrinkStableCountMin' = 0 /\ shrinkStableCountMax' = 0 ]_vars

\* An expansion of both ends by flat input away from zero, in a call after
\* the first: the upper bound adopted is one notch above the nice bound.
C3_Witness ==
  /\ call.made /\ ~call.first /\ call.expanded
  /\ call.dataMin = call.dataMax /\ call.dataMax = 5 * Scale
  /\ currentYMax = <<10 * Scale>>
  /\ lastScaleChange = now
  /\ shrinkStableCountMin = 0 /\ shrinkStableCountMax = 0

\* C4: a bound is moved by the shrink path only in a call that is the third
\* of three consecutive calls that cause no expansion, come at least 200 ms
\* after the last change and have the data within stepDown of that end's
\* bound; after one or two such calls the bound of that end is unchanged.
C4_ShrinkNeedsThree ==
  [][ /\ (Initialized /\ call'.made /\ ~call'.expanded /\ currentYMax' # currentYMax)
           => (qualRunMax >= 2 /\ qualRunMax' >= 3)
      /\ (Initialized /\ call'.made /\ ~call'.expanded /\ currentYMin' # currentYMin)
           => (qualRunMin >= 2 /\ qualRunMin' >= 3)
      /\ (qualRunMax' \in {1, 2}) => currentYMax' = currentYMax
      /\ (qualRunMin' \in {1, 2}) => currentYMin' = currentYMin ]_vars

\* The upper bound has come down from 5 to 2 in a third qualifying call.
C4_Witness ==
  /\ call.made /\ ~call.expanded /\ call.shrunkMax
  /\ qualRunMax >= 3
  /\ currentYMax = <<2 * Scale>>

\* C5: the shrink candidate of each end is tighter than the current bound:
\* stepDown(currentMax) <= currentMax and stepDown(currentMin) >= currentMin.
C5_CandidateIsTighter ==
  Initialized =>
    /\ stepDown(currentYMax[1]) <= currentYMax[1]
    /\ stepDown(currentYMin[1]) >= currentYMin[1]

\* C6: calculateYAxisBounds returns min < max for every dataMin <= dataMax.
C6_ProperInterval ==
  yb.applied =>
    \/ yb.min < yb.max
    \/ (yb.min = yb.max /\ yb.minOff < yb.maxOff)

\* C7: calculateBandT never returns isValid = true together with B = 0 or
\* with a T that is not a finite number.
C7_ZeroRateIsInvalid ==
  (fit.applied /\ fit.out.isValid) =>
    (fit.out.B # 0 /\ fit.out.T.kind = "finite")

\* The validation rules in the order of the specification.
FitRules(input) ==
  << <<input.A >= input.K, ERR_A_K>>,
     <<~(input.A < input.Y0 /\ input.Y0 < input.K), ERR_Y0>>,
     <<~(input.A < input.Y1 /\ input.Y1 < input.K), ERR_Y1>>,
     <<input.t1 = input.t0, ERR_T>>,
     <<~(input.nu.sig > 0), ERR_NU>>,
     <<Abs(input.t1 - input.t0) < MIN_TIME_GAP, ERR_CLOSE>> >>

FailingRules(input) == {i \in 1..Len(FitRules(input)) : FitRules(input)[i][1]}

FirstFailing(input) ==
  CHOOSE i \in FailingRules(input) : \A j \in FailingRules(input) : i <= j

\* C8: when validation fails calculateBandT returns B = 0, T = 0,
\* isValid = false and the message of the first failing rule in the order
\* A >= K, Y0, Y1, t0 = t1, nu <= 0, too close.
C8_FirstFailingRule ==
  (fit.applied /\ FailingRules(fit.in) # {}) =>
    /\ fit.out.B = 0 /\ fit.out.T = Finite(0) /\ ~fit.out.isValid
    /\ fit.out.error = FitRules(fit.in)[FirstFailing(fit.in)][2]
    /\ (fit.in.A = 1 /\ fit.in.K = 0) => fit.out.error = ERR_A_K
    /\ (fit.in.A = 0 /\ fit.in.K = 1 /\ fit.in.Y0 = 0) => fit.out.error = ERR_Y0

\* Every rule but the first is broken as well, and the first one is reported.
C8_Witness ==
  /\ fit.applied
  /\ fit.in.A = 1 /\ fit.in.K = 0
  /\ Cardinality(FailingRules(fit.in)) >= 5
  /\ fit.out.error = ERR_A_K /\ ~fit.out.isValid

FitConditions(input) ==
  /\ input.A < input.K
  /\ input.A < input.Y0 /\ input.Y0 < input.K
  /\ input.A < input.Y1 /\ input.Y1 < input.K
  /\ input.nu.sig > 0
  /\ Abs(input.t1 - input.t0) >= MIN_TIME_GAP

\* C9 (as stated): calculateBandT returns isValid = true exactly when A < K,
\* A < Y0 < K, A < Y1 < K, nu > 0 and |t1 - t0| >= 0.001.
C9_ValidExactlyWhen ==
  fit.applied => (fit.out.isValid <=> FitConditions(fit.in))

\* C9 (amended): calculateBandT returns isValid = true only when A < K,
\* A < Y0 < K, A < Y1 < K, nu > 0 and |t1 - t0| >= 0.001 all hold, and when
\* they hold the only invalid results are calculation errors of the logit
\* transform; an observation equal to A or K, or two times closer than
\* 0.001, always yields isValid = false.
C9_ValidOnlyWhen ==
  fit.applied =>
    /\ fit.out.isValid => FitConditions(fit.in)
    /\ (FitConditions(fit.in) /\ ~fit.out.isValid) => fit.out.error \in {ERR_Z, ERR_DENOM}
    /\ (\/ fit.in.Y0 \in {fit.in.A, fit.in.K}
        \/ fit.in.Y1 \in {fit.in.A, fit.in.K}
        \/ Abs(fit.in.t1 - fit.in.t0) < MIN_TIME_GAP) => ~fit.out.isValid

\* A valid fit of two times exactly 0.001 apart, with a positive rate.
C9_Witness ==
  /\ fit.applied /\ fit.out.isValid
  /\ Abs(fit.in.t1 - fit.in.t0) = MIN_TIME_GAP
  /\ fit.in.nu = Nu(2, 0)
  /\ fit.out.B > 0

\* The counter of an end reaches the threshold in the call being made.
ReachesMax == /\ shrinkStableCountMax + 1 >= SHRINK_STABLE_THRESHOLD
              /\ call'.dataMax <= stepDown(currentYMax[1])
ReachesMin == /\ shrinkStableCountMin + 1 >= SHRINK_STABLE_THRESHOLD
              /\ call'.dataMin >= stepDown(currentYMin[1])

\* C10: in a non-expanding call at least 200 ms after the last change, when
\* an end's stable-counter reaches 3 that end's bound becomes stepDown of
\* its previous value, its counter becomes 0 and lastScaleChange becomes
\* now; the other end's bound is unchanged unless its counter reached 3 too.
C10_CommitShrink ==
  [][ (Initialized /\ call'.made /\ ~call'.expanded
         /\ now' - lastScaleChange >= SHRINK_GRACE_MS) =>
        /\ ReachesMax => /\ currentYMax' = <<stepDown(currentYMax[1])>>
                         /\ shrinkStableCountMax' = 0
                         /\ lastScaleChange' = now'
        /\ ReachesMin => /\ currentYMin' = <<stepDown(currentYMin[1])>>
                         /\ shrinkStableCountMin' = 0
                         /\ lastScaleChange' = now'
        /\ (ReachesMax /\ ~ReachesMin) => currentYMin' = currentYMin
        /\ (ReachesMin /\ ~ReachesMax) => currentYMax' = currentYMax ]_vars

\* The lower bound alone was committed: -5 became -2, the upper bound stayed.
C10_Witness ==
  /\ call.made /\ call.graceOk /\ call.shrunkMin /\ ~call.shrunkMax
  /\ currentYMin = <<0 - 2 * Scale>>
  /\ shrinkStableCountMin = 0
  /\ lastScaleChange = now

\* The data of the call being made fits within stepDown of an end's bound.
FitsMax == call'.dataMax <= stepDown(currentYMax[1])
FitsMin == call'.dataMin >= stepDown(currentYMin[1])

\* A call on an initialized chart that does not expand, after the grace period.
LateQuietCall ==
  /\ Initialized /\ call'.made /\ ~call'.expanded
  /\ now' - lastScaleChange >= SHRINK_GRACE_MS

\* C11 (as stated): in a non-expanding call at least 200 ms after the last
\* change each end's stable-counter is incremented by exactly 1 if the data
\* fits within stepDown of that end's bound and reset to 0 otherwise.
C11_CounterPlusOne ==
  [][ LateQuietCall =>
        /\ shrinkStableCountMax' = IF FitsMax THEN shrinkStableCountMax + 1 ELSE 0
        /\ shrinkStableCountMin' = IF FitsMin THEN shrinkStableCountMin + 1 ELSE 0 ]_vars

\* C11 (amended): in such a call each end's stable-counter is updated from
\* that end's check alone: if the data fits within stepDown of that end's
\* bound it is incremented by exactly 1, and set back to 0 in the same call
\* when the increment reaches the threshold 3; it is reset to 0 otherwise,
\* whether or not the other end qualifies.
C11_CounterPerEnd ==
  [][ LateQuietCall =>
        /\ shrinkStableCountMax' =
             IF FitsMax
             THEN (IF shrinkStableCountMax + 1 >= 3 THEN 0 ELSE shrinkStableCountMax + 1)
             ELSE 0
        /\ shrinkStableCountMin' =
             IF FitsMin
             THEN (IF shrinkStableCountMin + 1 >= 3 THEN 0 ELSE shrinkStableCountMin + 1)
             ELSE 0 ]_vars

\* The max end failed its check in a late quiet call while the min end,
\* undisturbed, counted its second fit.
C11_Witness ==
  /\ call.made /\ call.graceOk /\ ~call.expanded
  /\ shrinkStableCountMax = 0 /\ shrinkStableCountMin = 2
  /\ call.dataMax > stepDown(currentYMax[1])

\* C12: after a call that causes no expansion and comes less than 200 ms
\* after the last change, both stable-counters are 0 and currentMin,
\* currentMax and lastScaleChange are unchanged.
C12_GraceHoldsCounters ==
  [][ (Initialized /\ call'.made /\ ~call'.expanded
         /\ now' - lastScaleChange < SHRINK_GRACE_MS) =>
        /\ shrinkStableCountMax' = 0 /\ shrinkStableCountMin' = 0
        /\ currentYMin' = currentYMin /\ currentYMax' = currentYMax
        /\ lastScaleChange' = lastScaleChange ]_vars

\* An early call, right after a shrink, whose data fits the next notch of
\* the max end: nothing is counted.
C12_Witness ==
  /\ call.made /\ ~call.first /\ ~call.expanded /\ ~call.graceOk
  /\ now - lastScaleChange < SHRINK_GRACE_MS
  /\ lastScaleChange > 0
  /\ call.dataMax <= stepDown(currentYMax[1])
  /\ shrinkStableCountMax = 0 /\ shrinkStableCountMin = 0

\* C13: on the first call the state becomes currentMin = nice lower bound
\* and currentMax = nice upper bound of the call's data, after the
\* flat-input fallback, lastScaleChange = now and both stable-counters = 0.
C13_FirstCallAdopts ==
  [][ (~Initialized /\ call'.made) =>
        /\ currentYMin' = <<DesiredLower(call'.dataMin, call'.dataMax)>>
        /\ currentYMax' = <<DesiredUpper(call'.dataMin, call'.dataMax)>>
        /\ lastScaleChange' = now'
        /\ shrinkStableCountMin' = 0 /\ shrinkStableCountMax' = 0 ]_vars

\* A first call with flat input 1, made after time 0: bounds [1, 2].
C13_Witness ==
  /\ call.made /\ call.first
  /\ call.dataMin = Scale /\ call.dataMax = Scale
  /\ currentYMin = <<Scale>> /\ currentYMax = <<2 * Scale>>
  /\ now > 0 /\ lastScaleChange = now

\* C14: an expansion recomputes only the end that was exceeded.
C14_ExpandsOneEnd ==
  [][ (Initialized /\ call'.made) =>
        /\ (call'.dataMax > currentYMax[1] /\ call'.dataMin >= currentYMin[1])
              => currentYMin' = currentYMin
        /\ (call'.dataMin < currentYMin[1] /\ call'.dataMax <= currentYMax[1])
              => currentYMax' = currentYMax ]_vars

\* The max end was exceeded while the lower bound -5 was looser than the
\* nice bound of the data: it stayed.
C14_Witness ==
  /\ call.made /\ ~call.first /\ call.expanded
  /\ currentYMin = <<0 - 5 * Scale>>
  /\ call.dataMin = 0
  /\ currentYMax = <<5 * Scale>> /\ call.dataMax = 5 * Scale

\* dataMin < dataMax for the two arguments of the last calculateYAxisBounds.
YbProperData ==
  yb.dataMin < yb.dataMax \/ (yb.dataMin = yb.dataMax /\ yb.dMin < yb.dMax)

\* The result is the two nice bounds moved outward by 10% of the raw range.
YbNicePlusBuffer ==
  /\ yb.min = BufferDiv * lowerBoundOff(yb.dataMin, yb.dMin)
                 - (yb.dataMax - yb.dataMin)
  /\ yb.minOff = 0 - (yb.dMax - yb.dMin)
  /\ yb.max = BufferDiv * upperBoundOff(yb.dataMax, yb.dMax)
                 + (yb.dataMax - yb.dataMin)
  /\ yb.maxOff = yb.dMax - yb.dMin

\* calculateYAxisBounds(-0.5, 0.5) = {min: -0.6, max: 0.6}.
YbExample ==
  (yb.dataMin = 0 - (Scale \div 2) /\ yb.dMin = 0 /\
   yb.dataMax = Scale \div 2 /\ yb.dMax = 0)
    => (yb.min = 0 - 6 * Scale /\ yb.minOff = 0 /\
        yb.max = 6 * Scale /\ yb.maxOff = 0)

\* C15 as stated: for every dataMin < dataMax calculateYAxisBounds returns
\* {lowerBound(dataMin) - b, upperBound(dataMax) + b} with b = 10% of the raw
\* data range, and calculateYAxisBounds(-0.5, 0.5) = {-0.6, 0.6}.
C15_BufferOnNiceBounds ==
  yb.applied => (YbExample /\ (YbProperData => YbNicePlusBuffer))

\* C15 amended: the same, for every dataMin < dataMax whose two nice bounds
\* differ; two data values within the tolerance of one nice value have equal
\* nice bounds and take the flat-input fallback.
C15_BufferOnDistinctNiceBounds ==
  yb.applied =>
    /\ YbExample
    /\ (YbProperData /\ lowerBoundOff(yb.dataMin, yb.dMin)
                          # upperBoundOff(yb.dataMax, yb.dMax))
         => YbNicePlusBuffer

C15_Witness ==
  /\ yb.applied
  /\ yb.dataMin = 0 - (Scale \div 2) /\ yb.dMin = 0
  /\ yb.dataMax = Scale \div 2 /\ yb.dMax = 0
  /\ yb.min = 0 - 6 * Scale /\ yb.max = 6 * Scale

\* The logarithm argument ((1/p)^nu - 1) / nu of the last call is <= 0 for
\* p = 0.01 or for p = 0.99.
XLogArgumentNonPositive ==
  \/ LogArgument(<<100, 1>>, xb.params.nu)[1] <= 0
  \/ LogArgument(<<100, 99>>, xb.params.nu)[1] <= 0

XIsFallback ==
  /\ xb.out.min = Finite(0 - 10 * PaddingDiv * LogScale)
  /\ xb.out.max = Finite(10 * PaddingDiv * LogScale)

XExampleParams ==
  /\ xb.params.A = 0 /\ xb.params.K = 1 /\ xb.params.B.sign = 0
  /\ xb.params.T = Finite(0) /\ xb.params.nu = Nu(1, 0)

\* C16: calculateXAxisBounds returns exactly {-10, 10} whenever B = 0 or the
\* logarithm argument is <= 0 for either percentile, every call returns a
\* range of two finite numbers, and {A:0, K:1, B:0, T:0, nu:1} gives {-10, 10}.
C16_FallbackRange ==
  xb.applied =>
    /\ (xb.params.B.sign = 0 \/ XLogArgumentNonPositive) => XIsFallback
    /\ xb.out.min.kind = "finite" /\ xb.out.max.kind = "finite"
    /\ XExampleParams => XIsFallback

C16_Witness ==
  xb.applied /\ XExampleParams /\ xb.fellBack /\ XIsFallback

\* C17: without fallback the result is {tMin - p, tMax + p} for the two
\* percentile times, p = max(10% of tMax - tMin, 1); the times are in the
\* order of the sign of B, and in both orders min < max and max - min >= 2.
C17_PaddedPercentiles ==
  (xb.applied /\ ~xb.fellBack) =>
    LET tMin == MathMin(xb.t01, xb.t99)
        tMax == MathMax(xb.t01, xb.t99)
        p == MathMax(tMax - tMin, PaddingDiv * LogScale) IN
    /\ xb.out.min = Finite(PaddingDiv * tMin - p)
    /\ xb.out.max = Finite(PaddingDiv * tMax + p)
    /\ xb.params.B.sign > 0 => xb.t01 < xb.t99
    /\ xb.params.B.sign < 0 => xb.t99 < xb.t01
    /\ xb.out.min.v < xb.out.max.v
    /\ xb.out.max.v - xb.out.min.v >= 2 * PaddingDiv * LogScale

C17_Witness ==
  /\ xb.applied /\ ~xb.fellBack
  /\ xb.params.B.sign < 0 /\ xb.t99 < xb.t01
  /\ xb.t01 - xb.t99 > PaddingDiv * LogScale
  /\ xb.out.max.v - xb.out.min.v > 2 * PaddingDiv * LogScale

ParamRules(params) ==
  << <<params.A >= params.K, ERR_A_K>>,
     <<~(params.B.sign > 0), ERR_B>>,
     <<~(params.nu.sig > 0), ERR_NU>> >>

FailingParamRules(params) ==
  {i \in 1..Len(ParamRules(params)) : ParamRules(params)[i][1]}

\* C18: validateParameters returns null exactly when A < K, B > 0 and nu > 0;
\* otherwise the message of the first failing check in the order A >= K,
\* B <= 0, nu <= 0; a call with another T returns the same.
C18_ParameterRules ==
  vp.applied =>
    /\ (vp.out = null) <=>
         (vp.params.A < vp.params.K /\ vp.params.B.sign > 0 /\ vp.params.nu.sig > 0)
    /\ \A i \in FailingParamRules(vp.params) :
         (\A j \in FailingParamRules(vp.params) : i <= j)
           => vp.out = ParamRules(vp.params)[i][2]
    /\ vp.outOther = vp.out

\* All three checks fail, the first is reported, and T differs between the
\* two calls.
C18_Witness ==
  /\ vp.applied
  /\ Cardinality(FailingParamRules(vp.params)) = 3
  /\ vp.out = ERR_A_K
  /\ vp.otherT # vp.params.T /\ vp.outOther = ERR_A_K

\* The values {1, 2, 5} x 10^e, in ticks, and the order of such a value v
\* against x + d * delta.
NiceSet == {c * Pow10(e) : c \in {1, 2, 5}, e \in 0..(Prec + 1)}
GeqOff(v, x, d) == v > x \/ (v = x /\ d <= 0)
LeqOff(v, x, d) == v < x \/ (v = x /\ d >= 0)

ExactCeil(x, d) ==
  CHOOSE v \in NiceSet :
    GeqOff(v, x, d) /\ \A w \in NiceSet : GeqOff(w, x, d) => v <= w

ExactFloor(x, d) ==
  CHOOSE v \in NiceSet :
    LeqOff(v, x, d) /\ \A w \in NiceSet : LeqOff(w, x, d) => v >= w

NiceDone == nice.applied /\ nice.op = "nice"

NextInSequence(a) ==
  CHOOSE v \in NiceSet : v > a /\ \A w \in NiceSet : w > a => v <= w

PreviousInSequence(a) ==
  CHOOSE v \in NiceSet : v < a /\ \A w \in NiceSet : w < a => v >= w

StepDone == nice.applied /\ nice.op = "step"

\* C20: for a nonzero value v of the 1-2-5 sequence stepUp(v) is the next
\* value in magnitude with the sign of v, stepDown(v) the previous one, and
\* stepDown(stepUp(v)) = v = stepUp(stepDown(v)).
C20_StepsAreInverse ==
  StepDone =>
    /\ nice.up = MathSign(nice.x) * NextInSequence(Abs(nice.x))
    /\ nice.down = MathSign(nice.x) * PreviousInSequence(Abs(nice.x))
    /\ nice.downUp = nice.x
    /\ nice.upDown = nice.x

\* A negative power of ten: stepDown crosses into the decade below.
C20_Witness ==
  /\ StepDone
  /\ nice.x < 0 /\ 0 - nice.x = Decade(0 - nice.x)
  /\ nice.down = 0 - 5 * ((0 - nice.x) \div 10)
  /\ nice.up = 2 * nice.x
  /\ nice.downUp = nice.x /\ nice.upDown = nice.x

BoundDone == nice.applied /\ nice.op = "bound"

\* Zero exactly when v = 0, and lowerBound(v) = -upperBound(-v).
BoundZeroAndMirror ==
  /\ (nice.upper = 0) <=> (nice.x = 0 /\ nice.d = 0)
  /\ (nice.lower = 0) <=> (nice.x = 0 /\ nice.d = 0)
  /\ nice.lower = 0 - nice.upperOfNeg

\* C21 as stated: upperBound(v) >= v and lowerBound(v) <= v for every v of
\* either sign, each is 0 exactly when v = 0, and
\* lowerBound(v) = -upperBound(-v).
C21_BoundsRoundOutward ==
  BoundDone =>
    /\ GeqOff(nice.upper, nice.x, nice.d)
    /\ LeqOff(nice.lower, nice.x, nice.d)
    /\ BoundZeroAndMirror

\* C21 amended: the two inequalities hold up to the 1e-12 tolerance of
\* almostEqual, and exactly for a v that is on a value of the sequence or
\* farther than the tolerance from every one; zero and mirror as stated.
C21_BoundsRoundOutwardWithinTolerance ==
  BoundDone =>
    /\ nice.upper >= nice.x
    /\ nice.lower <= nice.x
    /\ (nice.d = 0 \/ Abs(nice.x) \notin NiceSet) =>
         /\ GeqOff(nice.upper, nice.x, nice.d)
         /\ LeqOff(nice.lower, nice.x, nice.d)
    /\ BoundZeroAndMirror

\* upperBound of a number just above -2 x 10^e is -2 x 10^e, below it.
C21_Witness ==
  /\ BoundDone
  /\ nice.x < 0 /\ nice.d > 0 /\ 0 - nice.x = 2 * Decade(0 - nice.x)
  /\ nice.upper = nice.x
  /\ nice.lower = nice.x

\* The last calculateYAxisBounds call had dataMin = dataMax = x with both
\* nice bounds of x equal to 0.
YbFlatAtZero ==
  /\ yb.applied
  /\ yb.dataMin = yb.dataMax /\ yb.dMin = yb.dMax
  /\ upperBoundOff(yb.dataMax, yb.dMax) = 0
  /\ lowerBoundOff(yb.dataMin, yb.dMin) = 0

\* C22: calculateYAxisBounds(x, x) for an x whose nice bounds are both 0
\* returns exactly {min: -1, max: 1}, with no buffer.
C22_FlatAtZero ==
  YbFlatAtZero =>
    /\ yb.min = 0 - BufferDiv * Scale /\ yb.minOff = 0
    /\ yb.max = BufferDiv * Scale /\ yb.maxOff = 0

C22_Witness ==
  /\ YbFlatAtZero
  /\ yb.dataMin = 0
  /\ yb.min = 0 - BufferDiv * Scale /\ yb.max = BufferDiv * Scale

RtInside ==
  /\ rt.params.A < rt.Y0 /\ rt.Y0 < rt.params.K
  /\ rt.params.A < rt.Y1 /\ rt.Y1 < rt.params.K
  /\ Doublings(rt.t0, rt.params) \in (0 - 3)..3
  /\ Doublings(rt.t1, rt.params) \in (0 - 3)..3

C24_ReachesFixedPoint ==
  <>[][currentYMin' = currentYMin /\ currentYMax' = currentYMax]_vars

\* Data below zero: the upper bound has gone down the whole sequence to 0,
\* where stepDown(0) = 0 holds it.
C24_Witness ==
  /\ call.made /\ call.dataMax < 0
  /\ currentYMax = <<0>>
  /\ stepDown(currentYMax[1]) = currentYMax[1]
  /\ call.dataMin >= currentYMin[1]

\* The parameter set GuestimateForm.calculate publishes for the last fit;
\* validateParameters reads only the sign of B.
FitAsParams ==
  [A |-> fit.in.A, K |-> fit.in.K, B |-> Rate(MathSign(fit.out.B), 1),
   T |-> fit.out.T, nu |-> fit.in.nu]

\* C25 as stated: every valid fit result, with the A, K and nu it was
\* computed from, is accepted by validateParameters; a valid fit has B > 0
\* also when the later observation is the lower one.
C25_ValidFitIsAccepted ==
  (fit.applied /\ fit.out.isValid) =>
    /\ validateParameters(FitAsParams) = null
    /\ fit.out.B > 0

\* C25 amended: a valid fit result has A < K and nu > 0, and its B has the
\* sign of (Y1 - Y0) / (t1 - t0): validateParameters accepts the set when the
\* observations rise with time and answers 'B must be positive' when they
\* fall or are equal.
C25_ValidFitRateSign ==
  (fit.applied /\ fit.out.isValid) =>
    /\ fit.in.A < fit.in.K /\ fit.in.nu.sig > 0
    /\ MathSign(fit.out.B)
         = MathSign(fit.in.Y1 - fit.in.Y0) * MathSign(fit.in.t1 - fit.in.t0)
    /\ validateParameters(FitAsParams)
         = IF fit.out.B > 0 THEN null ELSE ERR_B

\* A valid fit of a later, lower observation: B < 0 and not accepted.
C25_Witness ==
  /\ fit.applied /\ fit.out.isValid
  /\ fit.in.t1 > fit.in.t0 /\ fit.in.Y1 < fit.in.Y0
  /\ fit.out.B < 0
  /\ validateParameters(FitAsParams) = ERR_B

\* C26: the first call of a fresh stabilizer returns the range that the
\* stateless calculateYAxisBounds returns for the same data, at any time.
C26_FirstCallIsStateless ==
  yb.freshApplied =>
    /\ yb.fresh.min = yb.min /\ yb.fresh.minOff = yb.minOff
    /\ yb.fresh.max = yb.max /\ yb.fresh.maxOff = yb.maxOff

\* C27: after any handler of the form, scenario mode being disabled implies
\* that the service holds no scenario parameters.
C27_NoScenarioWhenDisabled ==
  (form.initialized /\ ~form.enableScenario) => ~form.scenarioParameters.set

\* C28: after calculate has run on valid controls, the service holds
\* parameters exactly when the fit was valid, and data points exactly then
\* too; after an invalid fit it holds no scenario parameters either.
C28_PublishedIffFitValid ==
  (form.initialized /\ form.run.controlsValid) =>
    /\ form.parameters.set <=> form.run.fitValid
    /\ form.dataPoints.set <=> form.run.fitValid
    /\ ~form.run.fitValid => ~form.scenarioParameters.set

C28_Witness ==
  /\ form.initialized /\ form.run.controlsValid /\ ~form.run.fitValid
  /\ form.enableScenario /\ ~form.k2Invalid
  /\ ~form.parameters.set /\ ~form.dataPoints.set

\* C29: after every run of calculate, an error being shown implies that the
\* service holds no curve parameters.
C29_ErrorMeansNoParameters ==
  (form.initialized /\ form.error # null) => ~form.parameters.set

\* C30: in the legacy chart a bound is moved by the shrink path only in a
\* call that is at least the third of consecutive calls that cause no
\* expansion, come at least 200 ms after the last scale change and have the
\* data within stepDown of that end's bound; after one or two such calls
\* the bound of that end is unchanged.
C30_LegacyShrinkNeedsThree ==
  [][ /\ (legacy'.made /\ ~legacy'.first /\ ~legacy'.expanded
            /\ legacy'.currentYMax # legacy.currentYMax)
           => (legacy.qualRunMax >= 2 /\ legacy'.qualRunMax >= 3)
      /\ (legacy'.made /\ ~legacy'.first /\ ~legacy'.expanded
            /\ legacy'.currentYMin # legacy.currentYMin)
           => (legacy.qualRunMin >= 2 /\ legacy'.qualRunMin >= 3)
      /\ (legacy'.qualRunMax \in {1, 2}) => legacy'.currentYMax = legacy.currentYMax
      /\ (legacy'.qualRunMin \in {1, 2}) => legacy'.currentYMin = legacy.currentYMin ]_vars
====
